---------------------------- MODULE Spec2Model ----------------------------
(***************************************************************************)
(* Model of the analytical operations of surviving-json-jungle:            *)
(* src/run_polars.py (Polars LazyFrame pipelines) and src/run_duckdb.py    *)
(* (DuckDB SQL over the table `expeditions`).                              *)
(*                                                                         *)
(* A batch is the sequence of expedition records in the frame / table.     *)
(* Every operation is pure and reads the batch alone: an action applies    *)
(* one operation of one engine to the batch as read and leaves its result  *)
(* in `out`; `op` names the operation that produced it and `args` holds    *)
(* the caller-supplied parameters.                                         *)
(*                                                                         *)
(* Strings are sequences of character codes, so that equality is           *)
(* case-sensitive, ordering is lexicographic and to_lowercase is computed. *)
(* A nullable column value is <<>> (null) or <<v>>.                        *)
(***************************************************************************)
EXTENDS Integers, Sequences, FiniteSets, TLC

VARIABLES batch, op, args, out

vars == <<batch, op, args, out>>

(***************************************************************************)
(* Bounds of the explored inputs.                                          *)
(***************************************************************************)
MaxRecords == 2
MaxEntries == 2
MaxSightings == 2

(***************************************************************************)
(* Strings.                                                                *)
(***************************************************************************)
s_E1 == <<69, 49>>                   \* "E1"
s_E2 == <<69, 50>>                   \* "E2"
s_d01 == <<48, 49>>                  \* "01"
s_d02 == <<48, 50>>                  \* "02"
s_lion == <<108, 105, 111, 110>>     \* "lion"
s_Lion == <<76, 105, 111, 110>>      \* "Lion"
s_LION == <<76, 73, 79, 78>>         \* "LION"
s_gnu == <<103, 110, 117>>           \* "gnu"
s_hunt == <<104, 117, 110, 116>>     \* "hunt"
s_Hunt == <<72, 117, 110, 116>>      \* "Hunt"
s_rest == <<114, 101, 115, 116>>     \* "rest"

None == <<>>
Some(v) == <<v>>

\* s < t in the lexicographic order of the character codes
RECURSIVE StrLess(_, _)
StrLess(s, t) ==
    IF t = <<>> THEN FALSE
    ELSE IF s = <<>> THEN TRUE
    ELSE IF Head(s) # Head(t) THEN Head(s) < Head(t)
    ELSE StrLess(Tail(s), Tail(t))

StrLeq(s, t) == s = t \/ StrLess(s, t)

\* str.to_lowercase on the letters A..Z
ToLowercase(s) ==
    [i \in 1..Len(s) |-> IF s[i] >= 65 /\ s[i] <= 90 THEN s[i] + 32 ELSE s[i]]

(***************************************************************************)
(* Sequence helpers.                                                       *)
(***************************************************************************)
RECURSIVE Concat(_)
Concat(ss) == IF ss = <<>> THEN <<>> ELSE Head(ss) \o Concat(Tail(ss))

RECURSIVE SumSeq(_)
SumSeq(s) == IF s = <<>> THEN 0 ELSE Head(s) + SumSeq(Tail(s))

Range(s) == {s[i] : i \in 1..Len(s)}

CountIn(s, v) == Cardinality({i \in 1..Len(s) : s[i] = v})

\* the permutations of 1..n
Perms(n) == {p \in [1..n -> 1..n] : \A i, j \in 1..n : i # j => p[i] # p[j]}

\* the arrangements of the finite set S as a sequence
Orderings(S) ==
    {q \in [1..Cardinality(S) -> S] : \A v \in S : \E i \in 1..Cardinality(S) : q[i] = v}

(***************************************************************************)
(* The record model: the schema both engines read the input with.          *)
(***************************************************************************)
Sighting(a) == [activity |-> a]

Species(n, p, t, si) ==
    [name |-> n, population |-> p, tagged |-> t, sightings |-> si]

Expedition(id, d, sp) == [expedition_id |-> id, end_date |-> d, species |-> sp]

SeqsUpTo(S, n) == UNION {[1..l -> S] : l \in 0..n}

\* the batches of exactly n records drawn from heads H (id, end date) and
\* species entries E, holding at most k species entries in total
RECURSIVE BatchesOf(_, _, _, _)
BatchesOf(H, E, n, k) ==
    IF n = 0 THEN {<<>>}
    ELSE UNION {
           {<<Expedition(h[1], h[2], sp)>> \o rest :
                h \in H, sp \in [1..l -> E], rest \in BatchesOf(H, E, n - 1, k - l)}
           : l \in 0..k}

Batches(H, E) == UNION {BatchesOf(H, E, n, MaxEntries) : n \in 0..MaxRecords}

(***************************************************************************)
(* Operation 1: unique expedition count.                                   *)
(***************************************************************************)
ExpeditionIds(data) == {data[i].expedition_id : i \in 1..Len(data)}

\* count(): the rows, not the distinct ids
CountRows(data) == Len(data)

\* pl.col("expedition_id").n_unique()
PolarsUniqueExpeditionCount(data) == Cardinality(ExpeditionIds(data))

\* SELECT COUNT(DISTINCT expedition_id) FROM expeditions
DuckUniqueExpeditionCount(data) == Cardinality(ExpeditionIds(data))

Polars_compute_unique_expedition_count ==
    /\ op = "input"
    /\ op' = "polars.compute_unique_expedition_count"
    /\ out' = PolarsUniqueExpeditionCount(batch)
    /\ UNCHANGED <<batch, args>>

DuckDB_compute_unique_expedition_count ==
    /\ op = "input"
    /\ op' = "duckdb.compute_unique_expedition_count"
    /\ out' = DuckUniqueExpeditionCount(batch)
    /\ UNCHANGED <<batch, args>>

(***************************************************************************)
(* Operation 2: unique species count per expedition.                       *)
(***************************************************************************)
SpeciesNames(sp) == {sp[i].name : i \in 1..Len(sp)}

\* one row per record of the frame, in frame order:
\* list.eval(element().struct.field("name")).list.n_unique()
PolarsUniqueSpeciesCount(data) ==
    [i \in 1..Len(data) |->
        [expedition_id |-> data[i].expedition_id,
         count_unique_species |-> Cardinality(SpeciesNames(data[i].species))]]

\* the inner SELECT: unnest(reserve.species).name beside expedition_id;
\* unnest of an empty list yields no row
DuckSpeciesNameRows(data) ==
    Concat([i \in 1..Len(data) |->
              [j \in 1..Len(data[i].species) |->
                  [expedition_id |-> data[i].expedition_id,
                   species_name |-> data[i].species[j].name]]])

\* GROUP BY expedition_id, COUNT(DISTINCT species_name): the set of groups
DuckUniqueSpeciesCount(data) ==
    LET rows == DuckSpeciesNameRows(data)
    IN  {[expedition_id |-> e,
          count_unique_species |->
              Cardinality({rows[i].species_name :
                             i \in {k \in 1..Len(rows) : rows[k].expedition_id = e}})]
          : e \in {rows[i].expedition_id : i \in 1..Len(rows)}}

Polars_compute_unique_species_count_per_expedition ==
    /\ op = "input"
    /\ op' = "polars.compute_unique_species_count_per_expedition"
    /\ out' = PolarsUniqueSpeciesCount(batch)
    /\ UNCHANGED <<batch, args>>

DuckDB_compute_unique_species_count_per_expedition ==
    /\ op = "input"
    /\ op' = "duckdb.compute_unique_species_count_per_expedition"
    /\ out' \in Orderings(DuckUniqueSpeciesCount(batch))    \* no ORDER BY
    /\ UNCHANGED <<batch, args>>

(***************************************************************************)
(* Operation 3: species population totals.                                 *)
(***************************************************************************)
\* reserve.species .list.explode() .struct.field("name", "population"):
\* one row per element; the kernel gives an empty list one row of nulls
PolarsExplodeSpecies(data) ==
    Concat([i \in 1..Len(data) |->
              IF data[i].species = <<>>
              THEN <<[name |-> None, population |-> None, tagged |-> None]>>
              ELSE [j \in 1..Len(data[i].species) |->
                      [name |-> Some(data[i].species[j].name),
                       population |-> Some(data[i].species[j].population),
                       tagged |-> Some(data[i].species[j].tagged)]]])

\* unnest(reserve.species): one row per element, none for an empty list
DuckUnnestSpecies(data) ==
    Concat([i \in 1..Len(data) |->
              [j \in 1..Len(data[i].species) |->
                  [name |-> Some(data[i].species[j].name),
                   population |-> Some(data[i].species[j].population),
                   tagged |-> Some(data[i].species[j].tagged)]]])

\* max in place of sum: the largest non-null value, 0 without one
NullableMax(col) ==
    LET vals == {col[i][1] : i \in {k \in 1..Len(col) : col[k] # None}}
    IN  IF vals = {} THEN 0 ELSE CHOOSE v \in vals : \A w \in vals : w <= v

\* sum over a nullable column: a null adds nothing
NullableSum(col) == SumSeq([i \in 1..Len(col) |-> IF col[i] = None THEN 0 ELSE col[i][1]])

SelectIdx(rows, P(_)) == {i \in 1..Len(rows) : P(rows[i])}

RECURSIVE SetToSeqIdx(_)
SetToSeqIdx(I) ==
    IF I = {} THEN <<>>
    ELSE LET m == CHOOSE x \in I : \A y \in I : x <= y
         IN  <<m>> \o SetToSeqIdx(I \ {m})

\* the rows satisfying P, in row order
Filter(rows, P(_)) ==
    LET idx == SetToSeqIdx(SelectIdx(rows, P))
    IN  [k \in 1..Len(idx) |-> rows[idx[k]]]

\* group_by("name").agg(sum("population")) / GROUP BY name, SUM(population):
\* the set of groups, a null key forming a group of its own
GroupSumPopulation(rows) ==
    {[name |-> n,
      population |->
          LET g == Filter(rows, LAMBDA r : r.name = n)
          IN  NullableSum([i \in 1..Len(g) |-> g[i].population])]
      : n \in {rows[i].name : i \in 1..Len(rows)}}

PopulationDescending(q) ==
    \A i, j \in 1..Len(q) : i < j => q[i].population >= q[j].population

\* .sort("population", descending=True): the sort is not stable, so equal
\* totals come in any order
PolarsSpeciesPopulation(data) ==
    {q \in Orderings(GroupSumPopulation(PolarsExplodeSpecies(data))) :
        PopulationDescending(q)}

\* ORDER BY population DESC
DuckSpeciesPopulation(data) ==
    {q \in Orderings(GroupSumPopulation(DuckUnnestSpecies(data))) :
        PopulationDescending(q)}

Polars_compute_species_population ==
    /\ op = "input"
    /\ op' = "polars.compute_species_population"
    /\ out' \in PolarsSpeciesPopulation(batch)
    /\ UNCHANGED <<batch, args>>

DuckDB_compute_species_population ==
    /\ op = "input"
    /\ op' = "duckdb.compute_species_population"
    /\ out' \in DuckSpeciesPopulation(batch)
    /\ UNCHANGED <<batch, args>>

(***************************************************************************)
(* Operation 4: tracking-issue detection.                                  *)
(* A ratio is [kind, value]: kind "finite" with the value in hundredths,   *)
(* "inf" (IEEE division by zero) or "null" (SQL NULL).                     *)
(***************************************************************************)
Finite(h) == [kind |-> "finite", value |-> h]
Undefined(k) == [kind |-> k, value |-> 0]

\* the two roundings of an exact tie that the rounding modes produce
RoundModes == {"half_away_from_zero", "half_to_even"}

\* round(t / p, 2) in hundredths, p > 0
Round2(t, p, mode) ==
    LET lo == (100 * t) \div p
        rem == (100 * t) % p
    IN  IF 2 * rem < p THEN lo
        ELSE IF 2 * rem > p THEN lo + 1
        ELSE IF mode = "half_away_from_zero" THEN lo + 1
        ELSE IF lo % 2 = 0 THEN lo ELSE lo + 1

\* a division guarded by a zero default in place of the IEEE quotient
PolarsRatioZeroDefault(t, p, mode) == IF p = 0 THEN Finite(0) ELSE Finite(Round2(t, p, mode))

\* (pl.col("tagged") / pl.col("population")).round(2): float division, x/0 = inf
PolarsRatio(t, p, mode) == IF p = 0 THEN Undefined("inf") ELSE Finite(Round2(t, p, mode))

\* ROUND(CAST(tagged AS FLOAT) / population, 2): ROUND rounds half away from
\* zero; x/0 is NULL or inf, by the engine's floating point setting
DuckRatio(t, p, zerodiv) ==
    IF p = 0 THEN Undefined(zerodiv) ELSE Finite(Round2(t, p, "half_away_from_zero"))

DuckZeroDivision == {"inf", "null"}

\* a sorts at or before b in a descending sort: inf first, NULL last
RatioGeq(a, b) ==
    \/ a.kind = "inf"
    \/ b.kind = "null"
    \/ a.kind = "finite" /\ b.kind = "finite" /\ a.value >= b.value

RatioDescending(q) ==
    \A i, j \in 1..Len(q) : i < j => RatioGeq(q[i].ratio_tagged, q[j].ratio_tagged)

\* population <= tagged in place of the strict comparison
HasTrackingIssueOrEqual(r) ==
    r.population # None /\ r.tagged # None /\ r.population[1] <= r.tagged[1]

\* .filter(pl.col("population") < pl.col("tagged")) / WHERE population < tagged:
\* a comparison with null is null and drops the row
HasTrackingIssue(r) ==
    r.population # None /\ r.tagged # None /\ r.population[1] < r.tagged[1]

PolarsIssueRows(data, mode) ==
    LET f == Filter(PolarsExplodeSpecies(data), HasTrackingIssue)
    IN  [i \in 1..Len(f) |->
            [name |-> f[i].name, population |-> f[i].population[1],
             tagged |-> f[i].tagged[1],
             ratio_tagged |-> PolarsRatio(f[i].tagged[1], f[i].population[1], mode),
             excess_count |-> f[i].tagged[1] - f[i].population[1]]]

DuckIssueRows(data, zerodiv) ==
    LET f == Filter(DuckUnnestSpecies(data), HasTrackingIssue)
    IN  [i \in 1..Len(f) |->
            [name |-> f[i].name, population |-> f[i].population[1],
             tagged |-> f[i].tagged[1],
             ratio_tagged |-> DuckRatio(f[i].tagged[1], f[i].population[1], zerodiv),
             excess_count |-> f[i].tagged[1] - f[i].population[1]]]

\* the arrangements of the rows of a sequence
Rearrangements(rows) ==
    {[i \in 1..Len(rows) |-> rows[p[i]]] : p \in Perms(Len(rows))}

\* .sort("ratio_tagged", descending=True)
PolarsTrackingIssues(data, mode) ==
    {q \in Rearrangements(PolarsIssueRows(data, mode)) : RatioDescending(q)}

\* ORDER BY ratio_tagged DESC
DuckTrackingIssues(data, zerodiv) ==
    {q \in Rearrangements(DuckIssueRows(data, zerodiv)) : RatioDescending(q)}

Polars_determine_tracking_issues_by_species ==
    /\ op = "input"
    /\ op' = "polars.determine_tracking_issues_by_species"
    /\ \E mode \in RoundModes : out' \in PolarsTrackingIssues(batch, mode)
    /\ UNCHANGED <<batch, args>>

DuckDB_determine_tracking_issues_by_species ==
    /\ op = "input"
    /\ op' = "duckdb.determine_tracking_issues_by_species"
    /\ \E z \in DuckZeroDivision : out' \in DuckTrackingIssues(batch, z)
    /\ UNCHANGED <<batch, args>>

(***************************************************************************)
(* Operation 5: activity-threshold match per expedition.                   *)
(***************************************************************************)
\* explode of a list column: its elements, and one null for an empty list
ExplodeList(l) == IF l = <<>> THEN <<None>> ELSE [k \in 1..Len(l) |-> Some(l[k])]

ActivitiesOf(entry) == [k \in 1..Len(entry.sightings) |-> entry.sightings[k].activity]

\* list.eval(tracking.sightings .list.eval(activity) .flatten()): the
\* activities of every species of one record, in list order
PolarsSightedActivities(rec) ==
    Concat([j \in 1..Len(rec.species) |-> ExplodeList(ActivitiesOf(rec.species[j]))])

\* list.count_matches(target): exact equality, a null never matches
CountMatches(l, target) == Cardinality({k \in 1..Len(l) : l[k] = Some(target)})

\* one row per record, kept when its count > min_activity_count; frame order
PolarsActivityMatches(data, target_activity, min_activity_count) ==
    Filter([i \in 1..Len(data) |->
              [expedition_id |-> data[i].expedition_id,
               sighted_activities |-> PolarsSightedActivities(data[i]),
               target_activity_counts |->
                   CountMatches(PolarsSightedActivities(data[i]), target_activity)]],
           LAMBDA r : r.target_activity_counts > min_activity_count)

\* the CTEs species_sightings and activities: two unnests, one row per sighting
DuckActivityRows(data) ==
    Concat([i \in 1..Len(data) |->
              Concat([j \in 1..Len(data[i].species) |->
                        [k \in 1..Len(data[i].species[j].sightings) |->
                            [expedition_id |-> data[i].expedition_id,
                             activity |-> data[i].species[j].sightings[k].activity]]])])

\* the CTE activity_counts: WHERE activity = $target_activity
\* GROUP BY expedition_id, COUNT(*); then WHERE count > $min_activity_count
DuckActivityCounts(data, target_activity, min_activity_count) ==
    LET hits == Filter(DuckActivityRows(data), LAMBDA r : r.activity = target_activity)
        groups == {[expedition_id |-> e,
                    target_activity_count |->
                        Cardinality({i \in 1..Len(hits) : hits[i].expedition_id = e})]
                   : e \in {hits[i].expedition_id : i \in 1..Len(hits)}}
    IN  {g \in groups : g.target_activity_count > min_activity_count}

\* ORDER BY target_activity_count DESC
DuckActivityMatches(data, target_activity, min_activity_count) ==
    {q \in Orderings(DuckActivityCounts(data, target_activity, min_activity_count)) :
        \A i, j \in 1..Len(q) :
            i < j => q[i].target_activity_count >= q[j].target_activity_count}

TargetActivities == {s_hunt, s_Hunt}
MinActivityCounts == {-1, 0, 1}

Polars_count_activity_matches_per_expedition ==
    \E t \in TargetActivities, m \in MinActivityCounts :
        /\ op = "input"
        /\ op' = "polars.count_activity_matches_per_expedition"
        /\ args' = [target_activity |-> t, min_activity_count |-> m]
        /\ out' = PolarsActivityMatches(batch, t, m)
        /\ UNCHANGED batch

DuckDB_count_activity_matches_per_expedition ==
    \E t \in TargetActivities, m \in MinActivityCounts :
        /\ op = "input"
        /\ op' = "duckdb.count_activity_matches_per_expedition"
        /\ args' = [target_activity |-> t, min_activity_count |-> m]
        /\ out' \in DuckActivityMatches(batch, t, m)
        /\ UNCHANGED batch

(***************************************************************************)
(* Supporting operation: filter by species name set (Polars only).         *)
(***************************************************************************)
\* element().struct.field("name").str.to_lowercase().is_in(target_species)
NameIsIn(name, target_species) == ToLowercase(name) \in target_species

\* list.eval(filter) per record, records without a match dropped, the lists
\* flattened, then select("name", "population", "tagged", "sightings")
PolarsFilterForSpecies(data, target_species) ==
    LET kept == [i \in 1..Len(data) |->
                    Filter(data[i].species,
                           LAMBDA e : NameIsIn(e.name, target_species))]
        hits == Concat(Filter(kept, LAMBDA l : Len(l) > 0))
    IN  [k \in 1..Len(hits) |->
            [name |-> hits[k].name, population |-> hits[k].population,
             tagged |-> hits[k].tagged, sightings |-> hits[k].sightings]]

TargetNames == {s_lion, s_Lion, s_gnu}

Polars_filter_for_species_by_name ==
    \E target_species \in SUBSET TargetNames :
        /\ op = "input"
        /\ op' = "polars.filter_for_species_by_name"
        /\ args' = [target_species |-> target_species]
        /\ out' = PolarsFilterForSpecies(batch, target_species)
        /\ UNCHANGED batch

(***************************************************************************)
(* Operation 6: most common activity per species.                          *)
(***************************************************************************)
\* a < b for nullable strings in an ascending sort: nulls first
NullableLess(a, b) ==
    IF a = None THEN b # None
    ELSE IF b = None THEN FALSE
    ELSE StrLess(a[1], b[1])

\* explode("species").unnest("species"), then the select: one row per species
\* entry, and a row of nulls for a record without species
PolarsSpeciesActivityRows(data) ==
    Concat([i \in 1..Len(data) |->
              IF data[i].species = <<>>
              THEN <<[expedition_id |-> data[i].expedition_id,
                      expedition_end_date |-> data[i].end_date,
                      species_name |-> None, activities |-> <<>>]>>
              ELSE [j \in 1..Len(data[i].species) |->
                      [expedition_id |-> data[i].expedition_id,
                       expedition_end_date |-> data[i].end_date,
                       species_name |-> Some(data[i].species[j].name),
                       activities |-> ActivitiesOf(data[i].species[j])]]])

\* species_and_sigthtings, activities_per_expedition_and_species: one row
\* per species entry, none for a record without species
DuckSpeciesActivityRows(data) ==
    Concat([i \in 1..Len(data) |->
              [j \in 1..Len(data[i].species) |->
                  [expedition_id |-> data[i].expedition_id,
                   expedition_end_date |-> data[i].end_date,
                   species_name |-> Some(data[i].species[j].name),
                   activities |-> ActivitiesOf(data[i].species[j])]]])

\* .sort("species_name", "expedition_end_date", "expedition_id")
PolarsSortKeyLeq(a, b) ==
    \/ NullableLess(a.species_name, b.species_name)
    \/ /\ a.species_name = b.species_name
       /\ \/ StrLess(a.expedition_end_date, b.expedition_end_date)
          \/ /\ a.expedition_end_date = b.expedition_end_date
             /\ StrLeq(a.expedition_id, b.expedition_id)

\* list(activities ORDER BY expedition_end_date ASC)
DuckSortKeyLeq(a, b) == StrLeq(a.expedition_end_date, b.expedition_end_date)

\* the arrangements of rows a sort by Leq may return (rows equal under the
\* key come in any order)
SortedBy(rows, Leq(_, _)) ==
    {q \in Rearrangements(rows) : \A i, j \in 1..Len(q) : i < j => Leq(q[i], q[j])}

\* first() in place of the concatenation: the activities of the group's
\* first row alone
PolarsGatheredFirst(sorted, name) ==
    LET g == Filter(sorted, LAMBDA r : r.species_name = name)
    IN  ExplodeList(g[1].activities)

\* group_by("species_name").agg(concat_list("activities").flatten().explode()):
\* the activities of the group's rows in row order; the explode kernel turns
\* an empty list into one null
PolarsGathered(sorted, name) ==
    LET g == Filter(sorted, LAMBDA r : r.species_name = name)
    IN  Concat([i \in 1..Len(g) |-> ExplodeList(g[i].activities)])

\* flatten(list(activities ORDER BY ...)) then unnest: an empty list adds nothing
DuckGathered(sorted, name) ==
    LET g == Filter(sorted, LAMBDA r : r.species_name = name)
    IN  Concat([i \in 1..Len(g) |-> [k \in 1..Len(g[i].activities) |->
                                        Some(g[i].activities[k])]])

\* value_counts() / GROUP BY species_name, activity with COUNT(*)
ValueCounts(l) == {[value |-> v, count |-> CountIn(l, v)] : v \in Range(l)}

\* .filter(pl.col("count") == pl.max("count").over("species_name"))
PolarsTopActivities(counts) == {c \in counts : \A d \in counts : d.count <= c.count}

\* QUALIFY rank() OVER (PARTITION BY species_name ORDER BY cnt DESC, activity) = 1
DuckTopActivities(counts) ==
    {c \in counts :
        \A d \in counts \ {c} :
            ~(d.count > c.count \/ (d.count = c.count /\ NullableLess(d.value, c.value)))}

GroupNames(rows) == {rows[i].species_name : i \in 1..Len(rows)}

PolarsMostCommonRows(sorted) ==
    UNION {{[species_name |-> n, activity |-> c.value, count |-> c.count] :
              c \in PolarsTopActivities(ValueCounts(PolarsGathered(sorted, n)))}
           : n \in GroupNames(sorted)}

DuckMostCommonRows(sorted) ==
    UNION {{[species_name |-> n, most_common_activity |-> c.value, cnt |-> c.count] :
              c \in DuckTopActivities(ValueCounts(DuckGathered(sorted, n)))}
           : n \in GroupNames(sorted)}

NameAscending(q) ==
    \A i, j \in 1..Len(q) : i < j => ~NullableLess(q[j].species_name, q[i].species_name)

\* the groups keep the order of the sort (maintain_order=True); value_counts
\* gives the activities of a group in no particular order
PolarsMostCommonActivity(data) ==
    UNION {{q \in Orderings(PolarsMostCommonRows(sorted)) : NameAscending(q)}
           : sorted \in SortedBy(PolarsSpeciesActivityRows(data), PolarsSortKeyLeq)}

\* ORDER BY species_name
DuckMostCommonActivity(data) ==
    UNION {{q \in Orderings(DuckMostCommonRows(sorted)) : NameAscending(q)}
           : sorted \in SortedBy(DuckSpeciesActivityRows(data), DuckSortKeyLeq)}

Polars_compute_most_common_activity_per_species ==
    /\ op = "input"
    /\ op' = "polars.compute_most_common_activity_per_species"
    /\ out' \in PolarsMostCommonActivity(batch)
    /\ UNCHANGED <<batch, args>>

DuckDB_compute_most_common_activity_for_species ==
    /\ op = "input"
    /\ op' = "duckdb.compute_most_common_activity_for_species"
    /\ out' \in DuckMostCommonActivity(batch)
    /\ UNCHANGED <<batch, args>>

(***************************************************************************)
(* Specification of the expedition-level operations (1 and 2).             *)
(***************************************************************************)
ExpeditionHeads == {<<s_E1, s_d01>>, <<s_E2, s_d01>>}

NameOnlyEntries == {Species(n, 0, 0, <<>>) : n \in {s_lion, s_gnu}}

Init ==
    /\ batch \in Batches(ExpeditionHeads, NameOnlyEntries)
    /\ op = "input"
    /\ args = <<>>
    /\ out = <<>>

Next ==
    \/ Polars_compute_unique_expedition_count
    \/ DuckDB_compute_unique_expedition_count
    \/ Polars_compute_unique_species_count_per_expedition
    \/ DuckDB_compute_unique_species_count_per_expedition

Spec == Init /\ [][Next]_vars

(***************************************************************************)
(* Specification of the species-level operations (3 and 4): the species    *)
(* entries vary in name, population and tagged count.                      *)
(***************************************************************************)
\* (population, tagged): a ratio rounded up, an exact tie of the rounding, a
\* zero population, fewer tagged than the population, and none of either
CensusCounts == {<<3, 5>>, <<8, 9>>, <<0, 9>>, <<8, 5>>, <<0, 0>>}

CensusEntries ==
    {Species(n, c[1], c[2], <<>>) : n \in {s_lion, s_gnu}, c \in CensusCounts}

InitSpecies ==
    /\ batch \in Batches({<<s_E1, s_d01>>}, CensusEntries)
    /\ op = "input"
    /\ args = <<>>
    /\ out = <<>>

NextSpecies ==
    \/ Polars_compute_species_population
    \/ DuckDB_compute_species_population
    \/ Polars_determine_tracking_issues_by_species
    \/ DuckDB_determine_tracking_issues_by_species

SpecSpecies == InitSpecies /\ [][NextSpecies]_vars

(***************************************************************************)
(* Specification of the sighting-level operations (5 and 6): the species   *)
(* entries vary in name and sightings, the records in id and end date.     *)
(***************************************************************************)
DatedHeads == {<<id, d>> : id \in {s_E1, s_E2}, d \in {s_d01, s_d02}}

SightingLists == SeqsUpTo({Sighting(a) : a \in {s_hunt, s_rest}}, MaxSightings)

SightedEntries == {Species(n, 0, 0, si) : n \in {s_lion, s_gnu}, si \in SightingLists}

InitActivity ==
    /\ batch \in Batches(DatedHeads, SightedEntries)
    /\ op = "input"
    /\ args = <<>>
    /\ out = <<>>

NextActivity ==
    \/ Polars_count_activity_matches_per_expedition
    \/ DuckDB_count_activity_matches_per_expedition
    \/ Polars_compute_most_common_activity_per_species
    \/ DuckDB_compute_most_common_activity_for_species

SpecActivity == InitActivity /\ [][NextActivity]_vars

(***************************************************************************)
(* Specification of the filter by species name set: the names vary in      *)
(* letter case, and every entry carries data of its own.                   *)
(***************************************************************************)
CasedEntries ==
    {Species(s_lion, 3, 5, <<Sighting(s_hunt)>>),
     Species(s_Lion, 8, 0, <<>>),
     Species(s_LION, 0, 9, <<Sighting(s_rest)>>),
     Species(s_gnu, 8, 9, <<Sighting(s_rest), Sighting(s_hunt)>>)}

InitFilter ==
    /\ batch \in Batches({<<s_E1, s_d01>>}, CasedEntries)
    /\ op = "input"
    /\ args = <<>>
    /\ out = <<>>

NextFilter == Polars_filter_for_species_by_name

SpecFilter == InitFilter /\ [][NextFilter]_vars


(***************************************************************************)
(* Specification of operation 6 alone, for the order in which the          *)
(* activities of a species are gathered: records that share an end date or *)
(* an id, species that recur across records.                               *)
(***************************************************************************)
GatherHeads == {<<s_E1, s_d01>>, <<s_E2, s_d01>>}

GatherEntries ==
    {Species(s_lion, 0, 0, <<Sighting(s_hunt)>>),
     Species(s_lion, 0, 0, <<Sighting(s_rest), Sighting(s_hunt)>>),
     Species(s_gnu, 0, 0, <<Sighting(s_rest)>>)}

InitGather ==
    /\ batch \in Batches(GatherHeads, GatherEntries)
    /\ op = "input"
    /\ args = <<>>
    /\ out = <<>>

NextGather ==
    \/ Polars_compute_most_common_activity_per_species
    \/ DuckDB_compute_most_common_activity_for_species

SpecGather == InitGather /\ [][NextGather]_vars

(***************************************************************************)
(* Properties.                                                             *)
(***************************************************************************)
\* the sequences a and b hold the same elements the same number of times
SameRows(a, b) ==
    /\ Len(a) = Len(b)
    /\ \A x \in Range(a) \cup Range(b) : CountIn(a, x) = CountIn(b, x)

\* the number of distinct elements of s: its first occurrences
DistinctCount(s) == Cardinality({i \in 1..Len(s) : \A j \in 1..(i - 1) : s[j] # s[i]})

IdColumn(data) == [i \in 1..Len(data) |-> data[i].expedition_id]

AllIdsDistinct(data) ==
    \A i, j \in 1..Len(data) : i # j => data[i].expedition_id # data[j].expedition_id

\* every species entry of the batch, in batch and list order
AllEntries(data) == Concat([i \in 1..Len(data) |-> data[i].species])

UniqueExpeditionCountRan ==
    op \in {"polars.compute_unique_expedition_count",
            "duckdb.compute_unique_expedition_count"}

\* C8: the unique expedition count is the number of distinct expedition_id
\* values: at most the number of records, equal to it iff the ids are pairwise
\* distinct, and 0 for the empty batch.
C8_UniqueExpeditionCount ==
    UniqueExpeditionCountRan =>
        /\ out = DistinctCount(IdColumn(batch))
        /\ out <= Len(batch)
        /\ (out = Len(batch)) <=> AllIdsDistinct(batch)
        /\ batch = <<>> => out = 0

C8_Witness ==
    /\ UniqueExpeditionCountRan
    /\ Len(batch) = 2
    /\ ~AllIdsDistinct(batch)
    /\ out = 1

UniqueSpeciesCountRan ==
    op \in {"polars.compute_unique_species_count_per_expedition",
            "duckdb.compute_unique_species_count_per_expedition"}

\* C6: the unique species count has exactly one row per expedition of the
\* batch, expeditions with an empty species list included with count 0, and
\* the row's count is the number of distinct names in that expedition's list.
C6_OneRowPerExpedition ==
    UniqueSpeciesCountRan =>
        SameRows(out,
                 [i \in 1..Len(batch) |->
                    [expedition_id |-> batch[i].expedition_id,
                     count_unique_species |->
                         DistinctCount([j \in 1..Len(batch[i].species) |->
                                           batch[i].species[j].name])]])

TrackingIssuesRan ==
    op \in {"polars.determine_tracking_issues_by_species",
            "duckdb.determine_tracking_issues_by_species"}

EntryKey(e) == <<Some(e.name), e.population, e.tagged>>
RowKey(r) == <<r.name, r.population, r.tagged>>

Keys(rows, K(_)) == [i \in 1..Len(rows) |-> K(rows[i])]

\* h hundredths is a two-decimal value nearest to t / p
NearestHundredth(h, t, p) ==
    LET d == 100 * t - h * p
    IN  2 * (IF d < 0 THEN -d ELSE d) <= p

ZeroPopulationTagged(r) == r.population = 0 /\ r.tagged > 0

\* the batch without its species entries of population 0
WithoutZeroPopulation(data) ==
    [i \in 1..Len(data) |->
        [data[i] EXCEPT !.species = Filter(data[i].species, LAMBDA e : e.population # 0)]]

\* C4: a species entry with population 0 and tagged > 0 is in the
\* tracking-issue output with a ratio marked undefined (never a defined
\* ratio), and the other rows are those of the batch without such entries.
C4_ZeroPopulation ==
    TrackingIssuesRan =>
        /\ SameRows(Keys(Filter(out, ZeroPopulationTagged), RowKey),
                    Keys(Filter(AllEntries(batch), ZeroPopulationTagged), EntryKey))
        /\ \A i \in 1..Len(out) :
              ZeroPopulationTagged(out[i]) =>
                 /\ out[i].ratio_tagged.kind \in {"inf", "null"}
                 /\ out[i].excess_count = out[i].tagged
        /\ LET rest == Filter(out, LAMBDA r : ~ZeroPopulationTagged(r))
               less == WithoutZeroPopulation(batch)
           IN  IF op = "polars.determine_tracking_issues_by_species"
               THEN \E m \in RoundModes : SameRows(rest, PolarsIssueRows(less, m))
               ELSE \E z \in DuckZeroDivision : SameRows(rest, DuckIssueRows(less, z))

C4_Witness ==
    /\ TrackingIssuesRan
    /\ Len(out) = 2
    /\ \E i \in 1..2 : ZeroPopulationTagged(out[i]) /\ out[i].ratio_tagged.kind # "finite"
    /\ \E i \in 1..2 : out[i].population > 0 /\ out[i].ratio_tagged.kind = "finite"

SpeciesPopulationRan ==
    op \in {"polars.compute_species_population", "duckdb.compute_species_population"}

NameColumn(data) == Keys(AllEntries(data), LAMBDA e : e.name)

\* C5: the population totals have exactly one row per distinct species name
\* of the batch, the row's population is the sum over the entries of that
\* name, the rows are in non-increasing order of population, and the
\* populations add up to the population of every species entry.
C5_PopulationTotals ==
    SpeciesPopulationRan =>
        /\ Len(out) = DistinctCount(NameColumn(batch))
        /\ \A n \in Range(NameColumn(batch)) :
              \E i \in 1..Len(out) :
                 /\ out[i].name = Some(n)
                 /\ out[i].population =
                       SumSeq(Keys(Filter(AllEntries(batch), LAMBDA e : e.name = n),
                                   LAMBDA e : e.population))
        /\ \A i \in 1..(Len(out) - 1) : out[i].population >= out[i + 1].population
        /\ SumSeq(Keys(out, LAMBDA r : r.population)) =
              SumSeq(Keys(AllEntries(batch), LAMBDA e : e.population))

\* the rows the engine that ran explodes the species lists into
ExplodedRows ==
    IF op = "polars.compute_species_population"
    THEN PolarsExplodeSpecies(batch)
    ELSE DuckUnnestSpecies(batch)

\* C9: exploding the species lists yields one row per species entry, in list
\* order, and none for an empty list (no row of nulls), so an expedition
\* without species adds no group to the population totals.
C9_ExplodeRowCount ==
    SpeciesPopulationRan =>
        /\ Len(ExplodedRows) = Len(AllEntries(batch))
        /\ Keys(ExplodedRows, LAMBDA r : <<r.name, r.population, r.tagged>>) =
              Keys(AllEntries(batch),
                   LAMBDA e : <<Some(e.name), Some(e.population), Some(e.tagged)>>)
        /\ \A i \in 1..Len(out) : out[i].name # None

ActivityMatchesRan ==
    op \in {"polars.count_activity_matches_per_expedition",
            "duckdb.count_activity_matches_per_expedition"}

\* the count column of a row of operation 5, as the engine that ran names it
MatchCount(r) ==
    IF op = "polars.count_activity_matches_per_expedition"
    THEN r.target_activity_counts
    ELSE r.target_activity_count

\* the sightings of one expedition, over all of its species, whose activity
\* is exactly the target
MatchingSightings(rec, target) ==
    Cardinality({jk \in UNION {{<<j, k>> : k \in 1..Len(rec.species[j].sightings)} :
                                 j \in 1..Len(rec.species)} :
                    rec.species[jk[1]].sightings[jk[2]].activity = target})

\* C2: for every target activity and every integer threshold (0 and negative
\* ones included) an expedition is in the activity-threshold output iff its
\* number of sightings with exactly the target activity is strictly greater
\* than the threshold, and its row reports that number.
C2_ActivityThreshold ==
    ActivityMatchesRan =>
        SameRows(Keys(out, LAMBDA r : <<r.expedition_id, MatchCount(r)>>),
                 Filter([i \in 1..Len(batch) |->
                           <<batch[i].expedition_id,
                             MatchingSightings(batch[i], args.target_activity)>>],
                        LAMBDA x : x[2] > args.min_activity_count))

\* C10: the rows of the activity-threshold output are in non-increasing
\* order of their matching-activity count.
C10_ActivityOrder ==
    ActivityMatchesRan =>
        \A i \in 1..(Len(out) - 1) : MatchCount(out[i]) >= MatchCount(out[i + 1])

MostCommonActivityRan ==
    op \in {"polars.compute_most_common_activity_per_species",
            "duckdb.compute_most_common_activity_for_species"}

\* the activity and count columns of a row of operation 6
TopActivity(r) ==
    IF op = "polars.compute_most_common_activity_per_species"
    THEN r.activity
    ELSE r.most_common_activity

TopCount(r) ==
    IF op = "polars.compute_most_common_activity_per_species" THEN r.count ELSE r.cnt

\* the activities of all sightings of all species entries named n
ActivitiesOfName(data, n) ==
    LET es == Filter(AllEntries(data), LAMBDA e : e.name = n)
    IN  Concat([i \in 1..Len(es) |-> ActivitiesOf(es[i])])

\* a is the most common activity of the sequence l, the lexicographically
\* smallest of those that occur most often
IsMostCommon(a, l) ==
    /\ a \in Range(l)
    /\ \A b \in Range(l) : CountIn(l, b) <= CountIn(l, a)
    /\ \A b \in Range(l) : CountIn(l, b) = CountIn(l, a) => StrLeq(a, b)

\* C1: for every species name with a non-empty gathered activity sequence the
\* most-common-activity output has exactly one row; its count is the largest
\* occurrence count of an activity in the sequence and its activity the
\* lexicographically smallest of the activities with that count.
C1_MostCommonActivity ==
    MostCommonActivityRan =>
        \A n \in Range(NameColumn(batch)) :
            LET l == ActivitiesOfName(batch, n)
                rows == {i \in 1..Len(out) : out[i].species_name = Some(n)}
            IN  l # <<>> =>
                  /\ Cardinality(rows) = 1
                  /\ \A i \in rows :
                        /\ TopActivity(out[i]) # None
                        /\ IsMostCommon(TopActivity(out[i])[1], l)
                        /\ TopCount(out[i]) = CountIn(l, TopActivity(out[i])[1])

FilterRan == op = "polars.filter_for_species_by_name"

EqualIgnoringCase(a, b) == ToLowercase(a) = ToLowercase(b)

\* C7: the filter by species name set matches case-insensitively on both
\* sides: an entry is returned iff its name equals some target name ignoring
\* letter case, and its row carries the entry's name, population, tagged and
\* sightings.
C7_FilterIgnoringCase ==
    FilterRan =>
        SameRows(out,
                 Filter(AllEntries(batch),
                        LAMBDA e : \E t \in args.target_species :
                                      EqualIgnoringCase(e.name, t)))

\* the per-name totals the engine that ran computes for the records `data`
TotalsOf(data) ==
    Range(CHOOSE q \in (IF op = "polars.compute_species_population"
                        THEN PolarsSpeciesPopulation(data)
                        ELSE DuckSpeciesPopulation(data)) : TRUE)

\* the splits of n records into disjoint shards: f[i] is the shard of record
\* i, the shards numbered in the order of their first record
Splits(n) ==
    {f \in [1..n -> 1..n] :
        \A i \in 1..n : \A k \in 1..(f[i] - 1) : \E j \in 1..(i - 1) : f[j] = k}

\* the records of shard k, in batch order
Shard(data, f, k) ==
    LET idx == SetToSeqIdx({i \in 1..Len(data) : f[i] = k})
    IN  [j \in 1..Len(idx) |-> data[idx[j]]]

\* the total a shard's result holds for the name n, 0 when it has none
TotalIn(part, n) ==
    IF \E r \in part : r.name = n
    THEN (CHOOSE r \in part : r.name = n).population
    ELSE 0

\* the merge step: the totals of equal names added up
MergeTotals(parts) ==
    {[name |-> n, population |-> SumSeq([k \in 1..Len(parts) |-> TotalIn(parts[k], n)])]
      : n \in UNION {{r.name : r \in parts[k]} : k \in 1..Len(parts)}}

\* C11: for every split of the batch into disjoint shards of expeditions, the
\* per-name population totals of the shards, merged by adding the totals of
\* equal names, are the per-name totals of one pass over the whole batch; and
\* the totals are the same for every order of the records.
C11_ShardMerge ==
    SpeciesPopulationRan =>
        /\ \A f \in Splits(Len(batch)) :
              MergeTotals([k \in 1..Len(batch) |-> TotalsOf(Shard(batch, f, k))])
                 = Range(out)
        /\ \A p \in Perms(Len(batch)) :
              TotalsOf([i \in 1..Len(batch) |-> batch[p[i]]]) = Range(out)

C11_Witness ==
    /\ SpeciesPopulationRan
    /\ Len(batch) = 2
    /\ Len(batch[1].species) = 1
    /\ Len(batch[2].species) = 1
    /\ batch[1].species[1].name = batch[2].species[1].name
    /\ batch[1].species[1].population = 3
    /\ batch[2].species[1].population = 8
    /\ Len(out) = 1
    /\ out[1].population = 11

\* the sets of rows operation 6 of the engine that ran may return for `data`
\* (one per order the sort may leave the rows in), its columns named alike
MostCommonRowSets(data) ==
    IF op = "polars.compute_most_common_activity_per_species"
    THEN {{<<r.species_name, r.activity, r.count>> : r \in PolarsMostCommonRows(sorted)} :
            sorted \in SortedBy(PolarsSpeciesActivityRows(data), PolarsSortKeyLeq)}
    ELSE {{<<r.species_name, r.most_common_activity, r.cnt>> : r \in DuckMostCommonRows(sorted)} :
            sorted \in SortedBy(DuckSpeciesActivityRows(data), DuckSortKeyLeq)}

\* the full ordering: end date ascending, then expedition id ascending
DateThenIdLeq(a, b) ==
    \/ StrLess(a.expedition_end_date, b.expedition_end_date)
    \/ /\ a.expedition_end_date = b.expedition_end_date
       /\ StrLeq(a.expedition_id, b.expedition_id)

OutRowSet == {<<out[i].species_name, TopActivity(out[i]), TopCount(out[i])>> : i \in 1..Len(out)}

EndDates == {s_d01, s_d02}

\* C12: the set of (species_name, activity, count) rows of the
\* most-common-activity operation does not depend on the order the
\* activities are gathered in: every permutation of the expeditions and every
\* change of their end dates leaves it unchanged, and the DuckDB variant
\* returns the rows it would return with the id tie-break added to its order.
C12_GatherOrderIrrelevant ==
    MostCommonActivityRan =>
        /\ \A p \in Perms(Len(batch)) :
              MostCommonRowSets([i \in 1..Len(batch) |-> batch[p[i]]]) = {OutRowSet}
        /\ \A d \in [1..Len(batch) -> EndDates] :
              MostCommonRowSets([i \in 1..Len(batch) |->
                                    [batch[i] EXCEPT !.end_date = d[i]]]) = {OutRowSet}
        /\ op = "duckdb.compute_most_common_activity_for_species" =>
              \A sorted \in SortedBy(DuckSpeciesActivityRows(batch), DateThenIdLeq) :
                 {<<r.species_name, r.most_common_activity, r.cnt>> :
                     r \in DuckMostCommonRows(sorted)} = OutRowSet

\* two expeditions with the same end date and different ids hold the same
\* species with different sightings: the order DuckDB gathers them in is open
C12_Witness ==
    /\ op = "duckdb.compute_most_common_activity_for_species"
    /\ Len(batch) = 2
    /\ batch[1].end_date = batch[2].end_date
    /\ batch[1].expedition_id # batch[2].expedition_id
    /\ Len(batch[1].species) = 1
    /\ Len(batch[2].species) = 1
    /\ batch[1].species[1].name = batch[2].species[1].name
    /\ batch[1].species[1].sightings # <<>>
    /\ batch[2].species[1].sightings # <<>>
    /\ batch[1].species[1].sightings # batch[2].species[1].sightings
    /\ Cardinality(SortedBy(DuckSpeciesActivityRows(batch), DuckSortKeyLeq)) = 2
    /\ Len(out) = 1
    /\ out[1].cnt = 2

=============================================================================
